---------------------------- MODULE Spec2Model ----------------------------
(***************************************************************************)
(* State-machine model of the crawl-and-graph engine of RFC_automation:    *)
(*   src/crawler_script.py  normalize_url, crawl_site, generate_flows,     *)
(*                          the exporters and main                         *)
(*   src/app.py             run_crawler (background runner) and the        *)
(*                          status record a poller reads                   *)
(*                                                                         *)
(* A URL string is modelled by the record urlparse() gives for it:         *)
(*   scheme, netloc (the host split on "."), path (the path split on "/",  *)
(*   so "" is <<"">>, "/" is <<"","">>, "/a/" is <<"","a","">>), query and *)
(*   fragment.  A string with no scheme that starts with a host name       *)
(*   ("health-ee.netlify.app/a") keeps the host in netloc with scheme "":  *)
(*   urlparse() reads such a string as a relative path, see Urlparse.      *)
(* Python's None is the record NoneUrl, whose path is the empty tuple,     *)
(* which no string has.                                                    *)
(***************************************************************************)
EXTENDS Naturals, Sequences, FiniteSets, TLC

VARIABLES
    site,          \* the web site crawled: canonical path -> hrefs of the page (environment)
    page,          \* the path the browser page handle currently shows (<<>>: blank)
    DOMAIN_,       \* crawler_script.DOMAIN
    crawl_status,  \* the status record a poller reads
    visited,       \* crawler_script.visited
    site_graph,    \* crawler_script.site_graph: a function, its DOMAIN is the key set
    queue,         \* crawl_site's deque of <<url, depth>>
    all_ctas,      \* crawler_script.all_ctas (the page of each record)
    all_forms,     \* crawler_script.all_forms
    pc,            \* control point of the one runner (thread or direct call)
    args,          \* arguments of the running main(): start_url, max_pages, ...
    cs,            \* locals of crawl_site: start_url, url, depth, links, fatal
    gf,            \* locals of generate_flows: start, stack, all_flows, seen_count
    flows,         \* main's local "flows" (<<>> before generate_flows returns)
    exported,      \* export targets written by the running main()
    runs,          \* runs started so far
    faults,        \* adapter / export failures injected so far
    hist           \* observation log of the current run (not program state)

vars == <<site, page, DOMAIN_, crawl_status, visited, site_graph, queue, all_ctas,
          all_forms, pc, args, cs, gf, flows, exported, runs, faults, hist>>

-----------------------------------------------------------------------------
(* Bounds of the model *)

\* runs started one after the other in one behaviour
MaxRuns == 2
\* adapter and export failures injected in one behaviour
MaxFaults == 1
\* configured page budgets tried besides MAX_PAGES: 0 .. MaxBudget
MaxBudget == 3
\* configured flow depths tried besides MAX_FLOW_DEPTH: 0 .. MaxDepthArg
MaxDepthArg == 3
\* configured flow counts tried besides MAX_FLOW_COUNT: 0 .. MaxFlowsArg
MaxFlowsArg == 2

(* Program constants *)
MAX_PAGES == 10
MAX_FLOW_DEPTH == 5
MAX_FLOW_COUNT == 10000

-----------------------------------------------------------------------------
(* Sequence helpers *)

RECURSIVE FilterSeq(_, _)
\* the elements of s that are in set keep, in order
FilterSeq(s, keep) ==
    IF s = <<>> THEN <<>>
    ELSE IF Head(s) \in keep THEN <<Head(s)>> \o FilterSeq(Tail(s), keep)
         ELSE FilterSeq(Tail(s), keep)

Range(s) == {s[i] : i \in 1..Len(s)}

Front(s) == SubSeq(s, 1, Len(s) - 1)

Last(s) == s[Len(s)]

\* s ends with suffix t
EndsWith(s, t) == Len(t) <= Len(s) /\ SubSeq(s, Len(s) - Len(t) + 1, Len(s)) = t

RECURSIVE JoinStr(_, _)
\* sep.join(s) for a tuple of strings
JoinStr(s, sep) ==
    IF s = <<>> THEN ""
    ELSE IF Len(s) = 1 THEN s[1]
         ELSE s[1] \o sep \o JoinStr(Tail(s), sep)

-----------------------------------------------------------------------------
(* URLs *)

Url(scheme, netloc, path, query, fragment) ==
    [scheme |-> scheme, netloc |-> netloc, path |-> path,
     query |-> query, fragment |-> fragment]

NoneUrl == Url("", <<>>, <<>>, "", "")

\* the string "" (an empty href)
EmptyStr == Url("", <<>>, <<"">>, "", "")

\* truthiness of a Python str-or-None
Truthy(u) == u # NoneUrl /\ u # EmptyStr

\* a string "host/path" written without a scheme
IsBare(u) == u.scheme = "" /\ u.netloc # <<>>

\* urlparse(u): a scheme-less string has no netloc, the host text is its
\* first path segment
Urlparse(u) ==
    IF IsBare(u)
    THEN [u EXCEPT !.netloc = <<>>,
                   !.path = <<JoinStr(u.netloc, ".")>> \o Tail(u.path)]
    ELSE u

\* INVALID_SCHEMES.match(link): mailto:, tel:, javascript: or a leading "#"
InvalidScheme(u) ==
    \/ u.scheme \in {"mailto", "tel", "javascript"}
    \/ /\ u.scheme = "" /\ u.netloc = <<>> /\ u.path = <<"">>
       /\ u.query = "" /\ u.fragment # ""

\* urllib's dot-segment-free merge of a relative path with the base path
MergePath(bpath, path) ==
    LET base_parts == IF Last(bpath) # "" THEN Front(bpath) ELSE bpath
        segments == base_parts \o path
        n == Len(segments)
        inner == IF n > 2
                 THEN SelectSeq(SubSeq(segments, 2, n - 1), LAMBDA x : x # "")
                 ELSE <<>>
        resolved == IF n > 2 THEN <<segments[1]>> \o inner \o <<segments[n]>>
                    ELSE segments
    IN IF resolved = <<"">> THEN <<"", "">> ELSE resolved

\* urljoin(base, url) on parsed strings
Urljoin(base, url) ==
    LET b == Urlparse(base)
        u == Urlparse(url)
        scheme == IF u.scheme = "" THEN b.scheme ELSE u.scheme
    IN IF base = EmptyStr THEN url
       ELSE IF url = EmptyStr THEN base
       ELSE IF scheme # b.scheme \/ scheme \notin {"", "http", "https", "ftp"}
            THEN url
       ELSE IF u.netloc # <<>>
            THEN Url(scheme, u.netloc, u.path, u.query, u.fragment)
       ELSE IF u.path = <<"">>
            THEN Url(scheme, b.netloc, b.path,
                     IF u.query = "" THEN b.query ELSE u.query, u.fragment)
       ELSE IF u.path[1] = "" /\ Len(u.path) > 1
            THEN Url(scheme, b.netloc, u.path, u.query, u.fragment)
       ELSE Url(scheme, b.netloc, MergePath(b.path, u.path), u.query, u.fragment)

\* re.sub(r'\/\/+', '/', path): empty segments strictly inside the path go
CollapseSlashes(path) ==
    LET n == Len(path)
    IN IF n <= 2 THEN path
       ELSE <<path[1]>> \o SelectSeq(SubSeq(path, 2, n - 1), LAMBDA x : x # "")
                        \o <<path[n]>>

\* strip the one trailing slash of a non-root path
StripTrailingSlash(path) ==
    IF path # <<"", "">> /\ Len(path) >= 2 /\ Last(path) = ""
    THEN Front(path) ELSE path

\* the same-domain test of normalize_url: the domain itself or a subdomain
SameDomain(netloc, domain) ==
    netloc = domain \/ (Len(netloc) > Len(domain) /\ EndsWith(netloc, domain))

\* str.rstrip() on one piece of text: the pieces of the model that end in
\* white space, and what is left of them
StripRight(text) ==
    CASE text = " " -> ""
      [] text = "b " -> "b"
      [] text = "q= " -> "q="
      [] OTHER -> text

\* link.strip(): the white space at the end of the string goes; the end of
\* the string is its fragment, else its query, else its last path segment
\* (no string of the model starts with white space before other text)
Strip(u) ==
    IF u.fragment # "" THEN [u EXCEPT !.fragment = StripRight(@)]
    ELSE IF u.query # "" THEN [u EXCEPT !.query = StripRight(@)]
    ELSE [u EXCEPT !.path = Front(@) \o <<StripRight(Last(@))>>]

\* normalize_url(base, link) under the configured domain
normalize_url(base, link, domain) ==
    IF ~Truthy(link) THEN NoneUrl
    ELSE IF InvalidScheme(Strip(link)) THEN NoneUrl
    ELSE LET parsed == Urlparse(Urljoin(base, Strip(link)))
         IN IF parsed.scheme \notin {"http", "https"} THEN NoneUrl
            ELSE IF ~SameDomain(parsed.netloc, domain) THEN NoneUrl
            ELSE LET path0 == IF parsed.path = <<"">> THEN <<"", "">> ELSE parsed.path
                     path == StripTrailingSlash(CollapseSlashes(path0))
                 IN Url(parsed.scheme, parsed.netloc, path, parsed.query, "")


-----------------------------------------------------------------------------
(* The universe of the model: hosts, pages, seeds and web sites *)

\* urlparse(START_URL).netloc, the domain configured at import
StartHost == <<"health-ee", "netlify", "app">>
OtherHost == <<"other", "org">>

RootPath == <<"", "">>
PA == <<"", "a">>
PB == <<"", "b">>
PC == <<"", "c">>
PD == <<"", "d">>
PE == <<"", "e">>
PF == <<"", "f">>
Paths == {RootPath, PA, PB, PC, PD, PE, PF}

\* an absolute https URL string
Abs(host, path) == Url("https", host, path, "", "")
\* the href "/a" (path-absolute, resolved against the page it is on)
Href(path) == Url("", <<>>, path, "", "")
\* the href "/a/"
HrefSlash(path) == Url("", <<>>, path \o <<"">>, "", "")
\* the href "#top"
HrefFragment == Url("", <<>>, <<"">>, "", "top")
\* the href "mailto:x"
HrefMailto == Url("mailto", <<>>, <<"x">>, "", "")
\* the href "https://other.org/a", off the crawled domain unless the seed is there
HrefOther == Abs(OtherHost, PA)

\* START_URL = "https://health-ee.netlify.app/"
START_URL == Abs(StartHost, RootPath)

\* The site serves the same pages on every host; a page is found by the
\* path the server canonicalises (repeated and trailing slashes ignored).
PagePath(u) ==
    LET p == IF Urlparse(u).path = <<"">> THEN RootPath ELSE Urlparse(u).path
    IN StripTrailingSlash(CollapseSlashes(p))

SiteOf(links) == [p \in Paths |-> IF p \in DOMAIN links THEN links[p] ELSE <<>>]

\* A links to B, B links to A
CyclicSite == SiteOf((PA :> <<Href(PB)>>) @@ (PB :> <<Href(PA)>>))
\* A links to B and C, B links to C, C links to nothing
ChainSite == SiteOf((PA :> <<Href(PB), Href(PC)>>) @@ (PB :> <<Href(PC)>>))
\* A has five distinct in-scope outbound links
StarSite == SiteOf(PA :> <<Href(PB), Href(PC), Href(PD), Href(PE), Href(PF)>>)
\* the root links to A, A has a duplicated link, a trailing-slash link and junk
MixedSite ==
    SiteOf((RootPath :> <<Href(PA), HrefFragment>>)
           @@ (PA :> <<Href(PB), HrefSlash(PB), Href(PC), HrefMailto, EmptyStr>>)
           @@ (PB :> <<HrefOther, Href(RootPath), Href(PC)>>))
NamedSites == {CyclicSite, ChainSite, StarSite, MixedSite}

\* the href " " (white space only)
HrefBlank == Url("", <<>>, <<" ">>, "", "")
\* hrefs as authors write them: "/b", "/b/", "/b//", "/b ", "/b /", "/b/ /",
\* "/ /", "b /", "/b?q= #top", "/b /#top", "/b?q=", " ", "#top", "mailto:x",
\* "https://other.org/a", "https://health-ee.netlify.app/b /"
RawHrefs ==
    { Href(PB), HrefSlash(PB), Url("", <<>>, <<"", "b", "", "">>, "", ""),
      Url("", <<>>, <<"", "b ">>, "", ""),
      Url("", <<>>, <<"", "b ", "">>, "", ""),
      Url("", <<>>, <<"", "b", " ", "">>, "", ""),
      Url("", <<>>, <<"", " ", "">>, "", ""),
      Url("", <<>>, <<"b ", "">>, "", ""),
      Url("", <<>>, PB, "q= ", "top"),
      Url("", <<>>, <<"", "b ", "">>, "", "top"),
      Url("", <<>>, PB, "q=", ""),
      HrefBlank, HrefFragment, HrefMailto, HrefOther,
      Abs(StartHost, <<"", "b ", "">>) }

\* hrefs lists a page of a generated site may carry
GenLists ==
    { <<>>,
      <<Href(PB), Href(PC)>>,
      <<Href(PC), Href(PA)>>,
      <<Href(PB), Href(PB), Href(PC)>>,
      <<HrefSlash(PA), HrefFragment, HrefMailto, HrefOther>> }
GenSites == {SiteOf(f) : f \in [{PA, PB, PC} -> GenLists]}

\* seed strings typed into the start form
SeedA == Abs(StartHost, PA)
\* "https://other.org/a/": off the domain configured at import, trailing slash
SeedOtherSlash == Abs(OtherHost, PA \o <<"">>)
\* "health-ee.netlify.app/a": no scheme
SeedBare == Url("", StartHost, PA, "", "")
Seeds == {SeedA, SeedOtherSlash, SeedBare, START_URL}

\* configured limits: MAX_PAGES, MAX_FLOW_DEPTH, MAX_FLOW_COUNT
Limits(p, d, f) == [max_pages |-> p, max_flow_depth |-> d, max_flows |-> f]
DefaultLimits == Limits(MAX_PAGES, MAX_FLOW_DEPTH, MAX_FLOW_COUNT)
\* the arguments main() runs with: the seed and the configured defaults
MainArgs(url, l) ==
    [start_url |-> url, max_pages |-> l.max_pages,
     max_flow_depth |-> l.max_flow_depth, max_flows |-> l.max_flows]

-----------------------------------------------------------------------------
(* Initial state: the modules imported, no run started *)

EmptyGraph == [u \in {} |-> {}]

\* app.crawl_status as app.py builds it ("error" is absent until crawl_site sets it)
InitStatus ==
    [running |-> FALSE, completed |-> FALSE, current_url |-> EmptyStr,
     pages_crawled |-> 0, error |-> "None", total |-> 0]

NoCs == [start_url |-> NoneUrl, url |-> NoneUrl, depth |-> 0, links |-> <<>>,
         fatal |-> FALSE]
NoGf == [start |-> NoneUrl, stack |-> <<>>, all_flows |-> <<>>, seen_count |-> 0]
\* order: URLs in the order they entered visited; navs: URLs navigated to;
\* published: URLs published as current_url; attempted / failed: export
\* targets main tried to write / whose write failed; returned: main returned;
\* peak: the largest number of entries the queue held
NoHist == [order |-> <<>>, navs |-> <<>>, published |-> <<>>,
           attempted |-> {}, failed |-> {}, returned |-> FALSE, peak |-> 0]

\* the observation log after the queue changed to q
Peak(h, q) == [h EXCEPT !.peak = IF Len(q) > @ THEN Len(q) ELSE @]

\* what no run has touched yet
Fresh ==
    /\ page = <<>>
    /\ visited = {}
    /\ queue = <<>>
    /\ all_ctas = <<>>
    /\ all_forms = <<>>
    /\ cs = NoCs
    /\ gf = NoGf
    /\ flows = <<>>
    /\ exported = {}
    /\ faults = 0
    /\ hist = NoHist

-----------------------------------------------------------------------------
(* Steps shared by the actions *)

stores == <<visited, site_graph, queue, all_ctas, all_forms>>
locals == <<args, cs, gf, flows, exported>>
world == <<site, page, DOMAIN_>>

\* one assignment crawl_status[field] = value at control point `at`
StatusWrite(at, field, value, next) ==
    /\ pc = at
    /\ crawl_status' = [crawl_status EXCEPT ![field] = value]
    /\ pc' = next
    /\ UNCHANGED <<world, stores, locals, runs, faults, hist>>

-----------------------------------------------------------------------------
(* app.py: start_crawl and run_crawler *)

\* POST /start: a thread is started on run_crawler(url).  One run at a time
\* (the spec's precondition: runs must not execute concurrently).
StartCrawl ==
    /\ pc = "idle"
    /\ runs < MaxRuns
    /\ \E url \in Seeds : args' = [args EXCEPT !.start_url = url]
    /\ runs' = runs + 1
    /\ flows' = <<>>
    /\ exported' = {}
    /\ pc' = "rc23"
    /\ UNCHANGED <<world, crawl_status, stores, cs, gf, faults, hist>>

\* run_crawler, lines 23-26, then the call of main(url, crawl_status)
RunCrawlerInit ==
    \/ StatusWrite("rc23", "running", TRUE, "rc24")
    \/ StatusWrite("rc24", "completed", FALSE, "rc25")
    \/ StatusWrite("rc25", "current_url", args.start_url, "rc26")
    \/ StatusWrite("rc26", "pages_crawled", 0, "m538")

\* run_crawler, lines 30-31, after main() returned
RunCrawlerDone ==
    \/ StatusWrite("rc30", "running", FALSE, "rc31")
    \/ StatusWrite("rc31", "completed", TRUE, "idle")

-----------------------------------------------------------------------------
(* crawler_script.py: main, up to the call of crawl_site *)

\* main, lines 537-542: crawl_status_param is app.crawl_status; the module's
\* name crawl_status is bound to the same record
MainInit ==
    \/ StatusWrite("m538", "current_url", args.start_url, "m539")
    \/ StatusWrite("m539", "pages_crawled", 0, "m540")
    \/ StatusWrite("m540", "total", args.max_pages, "cs300")

-----------------------------------------------------------------------------
(* crawler_script.py: crawl_site *)

\* start_url.startswith("http")
StartsWithHttp(u) == u.scheme \in {"http", "https"}

\* "https://" + start_url
PrefixHttps(u) == [u EXCEPT !.scheme = "https"]

\* netloc.replace("www.", ""): every "www" label followed by a dot goes
StripWww(netloc) ==
    IF netloc = <<>> THEN <<>>
    ELSE SelectSeq(Front(netloc), LAMBDA x : x # "www") \o <<Last(netloc)>>

\* mutant: the edge is filed under its target
AddEdgeReversed(g, url, link) ==
    IF link \in DOMAIN g THEN [g EXCEPT ![link] = @ \cup {url}]
    ELSE g @@ (link :> {url})

\* site_graph[url].add(link) on the defaultdict
AddEdge(g, url, link) ==
    IF url \in DOMAIN g THEN [g EXCEPT ![url] = @ \cup {link}]
    ELSE g @@ (url :> {link})

\* crawl_site, lines 300-307: the scheme prefix and the reset of the stores
CsReset ==
    /\ pc = "cs300"
    /\ cs' = [NoCs EXCEPT !.start_url = IF StartsWithHttp(args.start_url)
                                        THEN args.start_url
                                        ELSE PrefixHttps(args.start_url)]
    /\ visited' = {}
    /\ site_graph' = EmptyGraph
    /\ all_ctas' = <<>>
    /\ all_forms' = <<>>
    /\ hist' = NoHist
    /\ pc' = "cs309"
    /\ UNCHANGED <<world, crawl_status, queue, args, gf, flows, exported, runs, faults>>

\* crawl_site, lines 309-314
CsStatusInit ==
    \/ StatusWrite("cs309", "running", TRUE, "cs310")
    \/ StatusWrite("cs310", "completed", FALSE, "cs311")
    \/ StatusWrite("cs311", "current_url", NoneUrl, "cs312")
    \/ StatusWrite("cs312", "pages_crawled", 0, "cs313")
    \/ StatusWrite("cs313", "error", "None", "cs314")
    \/ StatusWrite("cs314", "total", args.max_pages, "cs317")

\* the first frontier entry: the normalized seed, or the raw seed as fallback
SeedEntry(start_url, domain) ==
    LET start_norm == normalize_url(start_url, start_url, domain)
    IN IF Truthy(start_norm) THEN start_norm ELSE start_url

\* crawl_site, lines 317-331: a fresh queue, the seed entry, DOMAIN from the seed
CsSeed ==
    /\ pc = "cs317"
    /\ LET start_norm == SeedEntry(cs.start_url, DOMAIN_)
       IN /\ DOMAIN_' = StripWww(Urlparse(start_norm).netloc)
          /\ queue' = <<<<start_norm, 0>>>>
    /\ hist' = Peak(hist, queue')
    /\ pc' = "cs334"
    /\ UNCHANGED <<site, page, crawl_status, visited, site_graph, all_ctas, all_forms,
                   locals, runs, faults>>

\* crawl_site, lines 334-336: the browser starts with a blank page, or the
\* backend fails to initialise (fatal: the outer handler at 407)
CsLaunch ==
    /\ pc = "cs334"
    /\ \/ /\ page' = <<>>
          /\ pc' = "cs338"
          /\ UNCHANGED <<cs, faults>>
       \/ /\ faults < MaxFaults
          /\ faults' = faults + 1
          /\ cs' = [cs EXCEPT !.fatal = TRUE]
          /\ pc' = "cs408"
          /\ UNCHANGED page
    /\ UNCHANGED <<site, DOMAIN_, crawl_status, stores, args, gf, flows, exported, runs, hist>>

\* mutant: the loop tests the frontier only
LoopConditionNoBudget(q, v, max_pages) == q # <<>>

\* the loop condition of line 338
LoopCondition(q, v, max_pages) == q # <<>> /\ Cardinality(v) < max_pages

\* mutant: a popped URL is processed whether it was visited or not
CsPopNoVisitedTest ==
    /\ pc = "cs338"
    /\ LoopCondition(queue, visited, args.max_pages)
    /\ LET url == Head(queue)[1]
           depth == Head(queue)[2]
       IN /\ queue' = Tail(queue)
          /\ visited' = visited \cup {url}
          /\ cs' = [cs EXCEPT !.url = url, !.depth = depth, !.links = <<>>]
          /\ hist' = [hist EXCEPT !.order = Append(@, url)]
          /\ pc' = "cs345"
    /\ UNCHANGED <<world, crawl_status, site_graph, all_ctas, all_forms,
                   args, gf, flows, exported, runs, faults>>

\* mutant: the visited test guards the insert only, a popped duplicate is
\* processed like a new page
CsPopDuplicateProcessed ==
    /\ pc = "cs338"
    /\ LoopCondition(queue, visited, args.max_pages)
    /\ LET url == Head(queue)[1]
           depth == Head(queue)[2]
       IN /\ queue' = Tail(queue)
          /\ visited' = visited \cup {url}
          /\ hist' = IF url \in visited THEN hist
                     ELSE [hist EXCEPT !.order = Append(@, url)]
          /\ cs' = [cs EXCEPT !.url = url, !.depth = depth, !.links = <<>>]
          /\ pc' = "cs345"
    /\ UNCHANGED <<world, crawl_status, site_graph, all_ctas, all_forms,
                   args, gf, flows, exported, runs, faults>>

\* crawl_site, lines 338-342: the loop test, the pop, the visited test and insert
CsPop ==
    /\ pc = "cs338"
    /\ LoopCondition(queue, visited, args.max_pages)
    /\ LET url == Head(queue)[1]
           depth == Head(queue)[2]
       IN /\ queue' = Tail(queue)
          /\ IF url \in visited
             THEN /\ pc' = "cs338"
                  /\ UNCHANGED <<visited, cs, hist>>
             ELSE /\ visited' = visited \cup {url}
                  /\ cs' = [cs EXCEPT !.url = url, !.depth = depth, !.links = <<>>]
                  /\ hist' = [hist EXCEPT !.order = Append(@, url)]
                  /\ pc' = "cs345"
    /\ UNCHANGED <<world, crawl_status, site_graph, all_ctas, all_forms,
                   args, gf, flows, exported, runs, faults>>

\* crawl_site, lines 345-346
CsStatusPage ==
    \/ /\ pc = "cs345"
       /\ crawl_status' = [crawl_status EXCEPT !.current_url = cs.url]
       /\ hist' = [hist EXCEPT !.published = Append(@, cs.url)]
       /\ pc' = "cs346"
       /\ UNCHANGED <<world, stores, locals, runs, faults>>
    \/ StatusWrite("cs346", "pages_crawled", Cardinality(visited), "cs355")

\* crawl_site, lines 354-360: page.goto; a timeout or an error is logged and
\* leaves the handle on the document it had, or on the new one half loaded
CsNavigate ==
    /\ pc = "cs355"
    /\ \/ /\ page' = PagePath(cs.url)
          /\ UNCHANGED faults
       \/ /\ faults < MaxFaults
          /\ faults' = faults + 1
          /\ page' \in {page, PagePath(cs.url)}
    /\ hist' = [hist EXCEPT !.navs = Append(@, cs.url)]
    /\ pc' = "cs374"
    /\ UNCHANGED <<site, DOMAIN_, crawl_status, stores, locals, runs>>

\* crawl_site, lines 362-379: consent, scroll (both swallow their failures),
\* then the extractors: their records are appended, or on a failure none are
CsExtract ==
    /\ pc = "cs374"
    /\ \/ /\ all_ctas' = Append(all_ctas, cs.url)
          /\ all_forms' = Append(all_forms, cs.url)
          /\ UNCHANGED faults
       \/ /\ faults < MaxFaults
          /\ faults' = faults + 1
          /\ UNCHANGED <<all_ctas, all_forms>>
    /\ pc' = "cs382"
    /\ UNCHANGED <<world, crawl_status, visited, site_graph, queue, locals, runs, hist>>

\* crawl_site, line 382
CsStatusExtracted ==
    StatusWrite("cs382", "pages_crawled", Cardinality(visited), "cs388")

\* the hrefs of the document the handle shows
RawLinks(st, pg) == IF pg \in DOMAIN st THEN st[pg] ELSE <<>>

\* mutant: only the link of a page to itself is dropped
SurvivingLinksExceptSelf(url, raw_links, vis, domain) ==
    LET full == [i \in 1..Len(raw_links) |-> normalize_url(url, raw_links[i], domain)]
    IN FilterSeq(full, {f \in Range(full) : Truthy(f) /\ f # url})

\* mutant: links to visited pages survive
SurvivingLinksAll(url, raw_links, vis, domain) ==
    LET full == [i \in 1..Len(raw_links) |-> normalize_url(url, raw_links[i], domain)]
    IN FilterSeq(full, {f \in Range(full) : Truthy(f)})

\* lines 389-392: the normalized links that are not None and not visited
SurvivingLinks(url, raw_links, vis, domain) ==
    LET full == [i \in 1..Len(raw_links) |-> normalize_url(url, raw_links[i], domain)]
    IN FilterSeq(full, {f \in Range(full) : Truthy(f) /\ f \notin vis})

\* crawl_site, lines 386-394: the links of the page, or none when the
\* enumeration fails
CsLinks ==
    /\ pc = "cs388"
    /\ \/ /\ cs' = [cs EXCEPT !.links =
                       SurvivingLinks(cs.url, RawLinks(site, page), visited, DOMAIN_)]
          /\ UNCHANGED faults
       \/ /\ faults < MaxFaults
          /\ faults' = faults + 1
          /\ cs' = [cs EXCEPT !.links = <<>>]
    /\ pc' = "cs397"
    /\ UNCHANGED <<world, crawl_status, stores, args, gf, flows, exported, runs, hist>>

\* mutant: the enqueue test forgets the budget
AdmitsUnvisited(link, vis, q, max_pages) == link \notin vis

\* mutant: the enqueue test lets the sum reach the budget before the push
AdmitsUpToBudget(link, vis, q, max_pages) ==
    link \notin vis /\ Cardinality(vis) + Len(q) <= max_pages

\* the enqueue test of line 399
Admits(link, vis, q, max_pages) ==
    link \notin vis /\ Cardinality(vis) + Len(q) < max_pages

\* mutant: the edge is recorded only for a link that is enqueued
CsLinkAdmittedOnly ==
    /\ pc = "cs397"
    /\ IF cs.links = <<>>
       THEN /\ pc' = "cs338"
            /\ UNCHANGED <<site_graph, queue, cs, hist>>
       ELSE LET link == Head(cs.links)
                admitted == Admits(link, visited, queue, args.max_pages)
            IN /\ site_graph' = IF admitted THEN AddEdge(site_graph, cs.url, link)
                                ELSE site_graph
               /\ queue' = IF admitted THEN Append(queue, <<link, cs.depth + 1>>)
                           ELSE queue
               /\ cs' = [cs EXCEPT !.links = Tail(@)]
               /\ hist' = Peak(hist, queue')
               /\ pc' = "cs397"
    /\ UNCHANGED <<world, crawl_status, visited, all_ctas, all_forms,
                   args, gf, flows, exported, runs, faults>>

\* crawl_site, lines 397-400: one turn of the loop over links, and the way
\* back to the loop test when the links are used up
CsLink ==
    /\ pc = "cs397"
    /\ IF cs.links = <<>>
       THEN /\ pc' = "cs338"
            /\ UNCHANGED <<site_graph, queue, cs, hist>>
       ELSE LET link == Head(cs.links)
            IN /\ site_graph' = AddEdge(site_graph, cs.url, link)
               /\ queue' = IF Admits(link, visited, queue, args.max_pages)
                           THEN Append(queue, <<link, cs.depth + 1>>)
                           ELSE queue
               /\ cs' = [cs EXCEPT !.links = Tail(@)]
               /\ hist' = Peak(hist, queue')
               /\ pc' = "cs397"
    /\ UNCHANGED <<world, crawl_status, visited, all_ctas, all_forms,
                   args, gf, flows, exported, runs, faults>>

\* mutant: an unexpected error of one page is taken by the outer handler
CsUnexpectedFatal ==
    /\ pc \in {"cs355", "cs374", "cs382", "cs388", "cs397"}
    /\ faults < MaxFaults
    /\ faults' = faults + 1
    /\ cs' = [cs EXCEPT !.fatal = TRUE]
    /\ pc' = "cs408"
    /\ UNCHANGED <<world, crawl_status, stores, args, gf, flows, exported, runs, hist>>

\* crawl_site, lines 402-403: an error raised inside the page's try block
\* that no inner handler takes is logged; the loop goes on
CsUnexpected ==
    /\ pc \in {"cs355", "cs374", "cs382", "cs388", "cs397"}
    /\ faults < MaxFaults
    /\ faults' = faults + 1
    /\ pc' = "cs338"
    /\ UNCHANGED <<world, crawl_status, stores, locals, runs, hist>>

\* crawl_site, line 405: the loop is over, the browser is closed; a failure
\* of the close is taken by the outer handler at 407
CsClose ==
    /\ pc = "cs338"
    /\ ~LoopCondition(queue, visited, args.max_pages)
    /\ \/ /\ pc' = "cs412"
          /\ UNCHANGED <<cs, faults>>
       \/ /\ faults < MaxFaults
          /\ faults' = faults + 1
          /\ cs' = [cs EXCEPT !.fatal = TRUE]
          /\ pc' = "cs408"
    /\ UNCHANGED <<world, crawl_status, stores, args, gf, flows, exported, runs, hist>>

\* mutant: the fatal error is recorded and the function ends there
CsFatalNoPublish == StatusWrite("cs408", "error", "fatal", "idle")

\* crawl_site, line 408
CsFatal == StatusWrite("cs408", "error", "fatal", "cs412")

\* crawl_site, lines 412-415
CsStatusDone ==
    \/ StatusWrite("cs412", "running", FALSE, "cs413")
    \/ StatusWrite("cs413", "completed", TRUE, "cs414")
    \/ StatusWrite("cs414", "current_url", NoneUrl, "cs415")
    \/ StatusWrite("cs415", "pages_crawled", Cardinality(visited), "cs416")

\* crawl_site returns to main: its locals (the queue among them) are gone
CsReturn ==
    /\ pc = "cs416"
    /\ queue' = <<>>
    /\ cs' = NoCs
    /\ pc' = "m551"
    /\ UNCHANGED <<world, crawl_status, visited, site_graph, all_ctas, all_forms,
                   args, gf, flows, exported, runs, faults, hist>>


-----------------------------------------------------------------------------
(* crawler_script.py: main after the crawl, the exporters *)

\* main, lines 551-552
MainStatusDone ==
    \/ StatusWrite("m551", "completed", TRUE, "m552")
    \/ StatusWrite("m552", "running", FALSE, "x462")

\* one export target written at control point `at`; a write that fails is
\* logged when the code catches it, and ends main() when it does not
ExportStep(at, target, caught, next) ==
    /\ pc = at
    /\ \/ /\ exported' = exported \cup {target}
          /\ pc' = next
          /\ hist' = [hist EXCEPT !.attempted = @ \cup {target}]
          /\ UNCHANGED faults
       \/ /\ faults < MaxFaults
          /\ faults' = faults + 1
          /\ pc' = IF caught THEN next ELSE "idle"
          /\ hist' = [hist EXCEPT !.attempted = @ \cup {target},
                                  !.failed = @ \cup {target}]
          /\ UNCHANGED exported
    /\ UNCHANGED <<world, crawl_status, stores, args, cs, gf, flows, runs>>

\* export_csvs_and_json, lines 462-468: the CTA CSV, no handler
ExportCtaCsv == ExportStep("x462", "cta_csv", FALSE, "x471")
\* export_csvs_and_json, lines 471-477: the form CSV, no handler
ExportFormCsv == ExportStep("x471", "form_csv", FALSE, "x480")
\* export_csvs_and_json, lines 480-484: the combined JSON, failure logged
ExportJson == ExportStep("x480", "json", TRUE, "x506")
\* export_sdr_excel, lines 506-511: failure logged
ExportSdrExcel == ExportStep("x506", "sdr_xlsx", TRUE, "gf424")
\* export_flows_excel, lines 518-522: failure logged
ExportFlowsExcel == ExportStep("x518", "flows_xlsx", TRUE, "z577")
\* zip_public_screenshots, lines 577-585: no handler
ZipScreenshots == ExportStep("z577", "zip", FALSE, "m566")

\* main returns its result bundle to run_crawler
MainReturn ==
    /\ pc = "m566"
    /\ pc' = "rc30"
    /\ hist' = [hist EXCEPT !.returned = TRUE]
    /\ UNCHANGED <<world, crawl_status, stores, locals, runs, faults>>

-----------------------------------------------------------------------------
(* crawler_script.py: generate_flows *)

\* Python's order of the URL strings of the model: the strings are compared
\* piece by piece (scheme, host labels, path segments); the pieces in
\* alphabetical order.  Exact as long as no host is a prefix of another.
AtomOrder ==
    <<"", "a", "app", "b", "c", "d", "e", "f", "health-ee", "http", "https",
      "netlify", "org", "other", "www", "x">>

Rank(atom) == CHOOSE i \in 1..Len(AtomOrder) : AtomOrder[i] = atom

RECURSIVE LexLess(_, _)
LexLess(a, b) ==
    IF a = <<>> THEN b # <<>>
    ELSE IF b = <<>> THEN FALSE
    ELSE IF Head(a) = Head(b) THEN LexLess(Tail(a), Tail(b))
    ELSE Rank(Head(a)) < Rank(Head(b))

UrlLess(u, v) == LexLess(<<u.scheme>> \o u.netloc \o u.path,
                         <<v.scheme>> \o v.netloc \o v.path)

RECURSIVE SortedUrls(_)
\* list(S) followed by .sort()
SortedUrls(S) ==
    IF S = {} THEN <<>>
    ELSE LET m == CHOOSE x \in S : \A y \in S \ {x} : UrlLess(x, y)
         IN <<m>> \o SortedUrls(S \ {m})

\* site_graph.get(current, []) as a set
Neighbours(g, current) == IF current \in DOMAIN g THEN g[current] ELSE {}

\* mutant: the new path replaces the last node of the path by the neighbour
PushNeighboursReplacesLast(stack, path, neighbors) ==
    LET fresh == SelectSeq(neighbors, LAMBDA n : n \notin Range(path))
    IN stack \o [i \in 1..Len(fresh) |-> <<fresh[i], Append(Front(path), fresh[i])>>]

\* mutant: neighbours already on the path are pushed too
PushNeighboursNoCycleTest(stack, path, neighbors) ==
    stack \o [i \in 1..Len(neighbors) |-> <<neighbors[i], Append(path, neighbors[i])>>]

\* lines 442-447: the stack after the sorted neighbours not on the path are pushed
PushNeighbours(stack, path, neighbors) ==
    LET fresh == SelectSeq(neighbors, LAMBDA n : n \notin Range(path))
    IN stack \o [i \in 1..Len(fresh) |-> <<fresh[i], Append(path, fresh[i])>>]

\* mutant: the depth test is off by one
EmitsPathLate(g, current, path, max_depth) ==
    Len(path) - 1 > max_depth \/ Neighbours(g, current) = {}

\* the emit test of line 434
EmitsPath(g, current, path, max_depth) ==
    Len(path) - 1 >= max_depth \/ Neighbours(g, current) = {}

\* mutant: the loop tests the stack only
FlowLoopConditionNoCap(stack, all_flows, max_flows) == stack # <<>>

\* the loop condition of line 431
FlowLoopCondition(stack, all_flows, max_flows) ==
    stack # <<>> /\ Len(all_flows) < max_flows

\* mutant: the guard allows a hundred expansions for each flow
GuardTripsLate(seen_count, max_flows) == seen_count > max_flows * 100

\* the explosion guard of line 450
GuardTrips(seen_count, max_flows) == seen_count > max_flows * 10

\* generate_flows, lines 423-429
GfStart ==
    /\ pc = "gf424"
    /\ LET start == normalize_url(args.start_url, args.start_url, DOMAIN_)
       IN IF ~Truthy(start)
          THEN /\ flows' = <<>>
               /\ pc' = "x518"
               /\ UNCHANGED gf
          ELSE /\ gf' = [start |-> start, stack |-> <<<<start, <<start>>>>>>,
                         all_flows |-> <<>>, seen_count |-> 0]
               /\ pc' = "gf431"
               /\ UNCHANGED flows
    /\ UNCHANGED <<world, crawl_status, stores, args, cs, exported, runs, faults, hist>>

\* generate_flows, lines 431-452: one turn of the while loop
GfStep ==
    /\ pc = "gf431"
    /\ FlowLoopCondition(gf.stack, gf.all_flows, args.max_flows)
    /\ LET current == Last(gf.stack)[1]
           path == Last(gf.stack)[2]
           rest == Front(gf.stack)
       IN IF EmitsPath(site_graph, current, path, args.max_flow_depth)
          THEN /\ gf' = [gf EXCEPT !.stack = rest, !.all_flows = Append(@, path)]
               /\ pc' = "gf431"
          ELSE /\ gf' = [gf EXCEPT
                           !.stack = PushNeighbours(rest, path,
                                        SortedUrls(Neighbours(site_graph, current))),
                           !.seen_count = @ + 1]
               /\ pc' = IF GuardTrips(gf.seen_count + 1, args.max_flows)
                        THEN "gf454" ELSE "gf431"
    /\ UNCHANGED <<world, crawl_status, stores, args, cs, flows, exported, runs,
                   faults, hist>>

\* generate_flows, line 454: the loop is over (or was broken), all_flows is returned
GfReturn ==
    /\ \/ pc = "gf454"
       \/ pc = "gf431" /\ ~FlowLoopCondition(gf.stack, gf.all_flows, args.max_flows)
    /\ flows' = gf.all_flows
    /\ gf' = NoGf
    /\ pc' = "x518"
    /\ UNCHANGED <<world, crawl_status, stores, args, cs, exported, runs, faults, hist>>

-----------------------------------------------------------------------------
(* Specifications *)

RunCrawler == RunCrawlerInit \/ RunCrawlerDone

CrawlSite ==
    \/ CsReset \/ CsStatusInit \/ CsSeed \/ CsLaunch \/ CsPop \/ CsStatusPage
    \/ CsNavigate \/ CsExtract \/ CsStatusExtracted \/ CsLinks \/ CsLink
    \/ CsUnexpected \/ CsClose \/ CsFatal \/ CsStatusDone \/ CsReturn

GenerateFlows == GfStart \/ GfStep \/ GfReturn

Exports ==
    \/ ExportCtaCsv \/ ExportFormCsv \/ ExportJson \/ ExportSdrExcel
    \/ ExportFlowsExcel \/ ZipScreenshots

Main == MainInit \/ CrawlSite \/ MainStatusDone \/ Exports \/ GenerateFlows \/ MainReturn

\* every step of a started run
Runner == RunCrawler \/ Main

Next == StartCrawl \/ Runner

\* the limits configured for a behaviour: the repository's, or a small page
\* budget and the flow depth of the cyclic scenario
AppLimits ==
    {Limits(p, d, MAX_FLOW_COUNT) :
        p \in (0..MaxBudget) \cup {MAX_PAGES}, d \in {3, MAX_FLOW_DEPTH}}

\* The application: runs started one after the other through POST /start,
\* on one of the named sites.
Init ==
    /\ Fresh
    /\ site \in NamedSites
    /\ DOMAIN_ = StartHost
    /\ site_graph = EmptyGraph
    /\ crawl_status = InitStatus
    /\ \E l \in AppLimits : args = MainArgs(NoneUrl, l)
    /\ pc = "idle"
    /\ runs = 0

Spec == Init /\ [][Next]_vars

\* One run of run_crawler from the moment POST /start started its thread,
\* first run after import, on the three scenario sites under a budget of 0,
\* of 1 and the repository's: for the properties of whole behaviours.
InitRun ==
    /\ Fresh
    /\ site \in {CyclicSite, ChainSite, MixedSite}
    /\ DOMAIN_ = StartHost
    /\ site_graph = EmptyGraph
    /\ crawl_status = InitStatus
    /\ \E url \in {SeedA, SeedOtherSlash}, p \in {0, 1, MAX_PAGES} :
          args = MainArgs(url, Limits(p, MAX_FLOW_DEPTH, MAX_FLOW_COUNT))
    /\ pc = "rc23"
    /\ runs = 1

\* a started run is one thread that keeps running: its next step is taken
FairSpec == InitRun /\ [][Runner]_vars /\ WF_vars(Runner)

\* One call main(url, crawl_status) made by run_crawler in the first run
\* after import, on a named or a generated site.

InitMain ==
    /\ Fresh
    /\ site \in NamedSites \cup GenSites
    /\ DOMAIN_ = StartHost
    /\ site_graph = EmptyGraph
    /\ \E url \in Seeds, l \in AppLimits :
          /\ args = MainArgs(url, l)
          /\ crawl_status = [InitStatus EXCEPT !.running = TRUE, !.current_url = url]
    /\ pc = "m538"
    /\ runs = 1

SpecMain == InitMain /\ [][Main]_vars

NodeA == Abs(StartHost, PA)
NodeB == Abs(StartHost, PB)
NodeC == Abs(StartHost, PC)

\* generate_flows called on any graph over three pages, cyclic or not
FlowNodes == {Abs(StartHost, PA), Abs(StartHost, PB), Abs(StartHost, PC)}

GraphOf(f) == [u \in {n \in FlowNodes : f[n] # {}} |-> f[u]]

FlowLimits ==
    {Limits(MAX_PAGES, d, f) : d \in 0..MaxDepthArg, f \in 0..MaxFlowsArg}

\* the complete graph on the pages A .. E: every path from A runs into a
\* node whose neighbours are all on the path
CompleteGraph ==
    LET nodes == {Abs(StartHost, p) : p \in {PA, PB, PC, PD, PE}}
    IN [u \in nodes |-> nodes \ {u}]
\* the same with two pages without links, F and the root, linked from A
CompleteGraphWithLeaves ==
    [CompleteGraph EXCEPT ![NodeA] = @ \cup {Abs(StartHost, PF), START_URL}]
DenseGraphs == {CompleteGraph, CompleteGraphWithLeaves}

InitFlows ==
    /\ Fresh
    /\ site = SiteOf(<<>>)
    /\ DOMAIN_ = StartHost
    /\ \/ /\ \E f \in [FlowNodes -> SUBSET FlowNodes] : site_graph = GraphOf(f)
          /\ \E url \in {SeedA, Abs(StartHost, PA \o <<"">>), SeedBare}, l \in FlowLimits :
                args = MainArgs(url, l)
       \/ /\ site_graph \in DenseGraphs
          /\ \E f \in 1..MaxFlowsArg :
                args = MainArgs(SeedA, Limits(MAX_PAGES, MAX_FLOW_DEPTH, f))
    /\ crawl_status = [InitStatus EXCEPT !.completed = TRUE]
    /\ pc = "gf424"
    /\ runs = 1

SpecFlows == InitFlows /\ [][GenerateFlows]_vars

\* crawl_site at line 386 of its first page (the seed, already visited and
\* extracted), the page carrying any two hrefs an author may write: the
\* link enumeration and the loop over the links
LinkEnumeration == CsLinks \/ CsLink

InitLinks ==
    /\ \E url \in {SeedA, START_URL}, p \in 1..MaxBudget, x, y \in RawHrefs :
          /\ site = SiteOf(PagePath(url) :> <<x, y>>)
          /\ page = PagePath(url)
          /\ args = MainArgs(url, Limits(p, MAX_FLOW_DEPTH, MAX_FLOW_COUNT))
          /\ cs = [NoCs EXCEPT !.start_url = url, !.url = url]
          /\ visited = {url}
          /\ all_ctas = <<url>>
          /\ all_forms = <<url>>
          /\ crawl_status = [InitStatus EXCEPT !.running = TRUE, !.current_url = url,
                                               !.pages_crawled = 1, !.total = p]
          /\ hist = [NoHist EXCEPT !.order = <<url>>, !.navs = <<url>>,
                                   !.published = <<url>>]
    /\ DOMAIN_ = StartHost
    /\ site_graph = EmptyGraph
    /\ queue = <<>>
    /\ gf = NoGf
    /\ flows = <<>>
    /\ exported = {}
    /\ faults = 0
    /\ pc = "cs388"
    /\ runs = 1

SpecLinks == InitLinks /\ [][LinkEnumeration]_vars


-----------------------------------------------------------------------------
(* The claims *)

\* control points after crawl_site published its last status write
AfterCrawl ==
    {"cs416", "m551", "m552", "x462", "x471", "x480", "x506", "gf424", "gf431",
     "gf454", "x518", "z577", "m566", "rc30", "rc31"}

\* control points after generate_flows returned, and the end of the run
FlowsReturned == {"x518", "z577", "m566", "rc30", "rc31", "idle"}

\* the targets of the edges of a graph
EdgeTargets(g) == UNION {g[u] : u \in DOMAIN g}

NoDuplicate(flow) == \A i, j \in 1..Len(flow) : flow[i] = flow[j] => i = j

\* C1: under every page budget from 0 up and on every site, in every state
\* of a call of main (so in every state of crawl_site and at completion)
\* the visited set holds at most max_pages URLs.
C1_VisitedWithinBudget == Cardinality(visited) <= args.max_pages

\* the crawl is over with the budget used up and a discovered page unvisited
C1_Witness ==
    /\ pc = "cs416"
    /\ args.max_pages >= 1
    /\ Cardinality(visited) = args.max_pages
    /\ ~(EdgeTargets(site_graph) \subseteq visited)

\* C2: in every state a poller can read, over any sequence of runs,
\* completed = true implies running = false.
C2_CompletedImpliesNotRunning == crawl_status.completed => ~crawl_status.running

\* C3: in every state of a crawl run and at its completion every key of
\* the graph is a visited URL (edge targets need not be).
C3_GraphKeysVisited == DOMAIN site_graph \subseteq visited

\* the crawl is over, the graph has keys, and an edge target was never visited
C3_Witness ==
    /\ pc = "cs416"
    /\ DOMAIN site_graph # {}
    /\ ~(EdgeTargets(site_graph) \subseteq visited)

\* C4: on every graph, cyclic or not, no flow generate_flows has emitted or
\* returned holds the same node twice.
C4_FlowsHaveNoDuplicate ==
    \A flow \in Range(gf.all_flows) \cup Range(flows) : NoDuplicate(flow)

\* a three-node flow was returned on a graph where A and B link to each other
C4_Witness ==
    /\ pc = "x518"
    /\ NodeB \in Neighbours(site_graph, NodeA)
    /\ NodeA \in Neighbours(site_graph, NodeB)
    /\ <<NodeA, NodeB, NodeC>> \in Range(flows)

\* C5: every flow emitted or returned has at most max_depth + 1 nodes.
C5_FlowsWithinDepth ==
    \A flow \in Range(gf.all_flows) \cup Range(flows) :
        Len(flow) <= args.max_flow_depth + 1

\* a returned flow was cut by the depth limit: its last node has neighbours
C5_Witness ==
    /\ pc = "x518"
    /\ \E flow \in Range(flows) :
          /\ Len(flow) = args.max_flow_depth + 1
          /\ Neighbours(site_graph, Last(flow)) # {}

\* C6: the number of flows never exceeds max_flows, and once it has reached
\* max_flows no further turn of the loop is taken, whatever is on the stack.
C6_FlowCountCapped ==
    /\ Len(gf.all_flows) <= args.max_flows
    /\ Len(flows) <= args.max_flows
    /\ (pc = "gf431" /\ Len(gf.all_flows) >= args.max_flows) => ~ENABLED GfStep

\* the cap is reached while the stack still holds paths
C6_Witness ==
    /\ pc = "gf431"
    /\ args.max_flows >= 1
    /\ Len(gf.all_flows) = args.max_flows
    /\ gf.stack # <<>>

C8_Scenario ==
    /\ site = CyclicSite
    /\ args.start_url = SeedA
    /\ args.max_flow_depth = 3
    /\ args.max_pages >= 1
    /\ faults = 0

\* C8: on the cyclic site (A links to B, B links to A), seed A, max depth 3,
\* the flow enumeration after the crawl ends within two turns of its loop
\* and returns exactly [[A, B]].
C8_CyclicSiteFlows ==
    C8_Scenario =>
        /\ pc \in {"gf431", "gf454"} => gf.seen_count + Len(gf.all_flows) <= 2
        /\ pc \in FlowsReturned => flows = <<<<NodeA, NodeB>>>>

\* the run on the cyclic site has returned its flows, B was crawled too
C8_Witness ==
    /\ C8_Scenario
    /\ pc = "x518"
    /\ visited = {NodeA, NodeB}
    /\ flows = <<<<NodeA, NodeB>>>>

\* the three-page site crawled from A with budget 10 and flow depth 5
C9_Scenario ==
    /\ site = ChainSite
    /\ args.start_url = SeedA
    /\ args.max_pages = 10
    /\ args.max_flow_depth = 5
    /\ faults = 0

\* C9: on the three-page site (A links to B and C, B links to C), seed A,
\* budget 10, max depth 5: C is in the frontier twice once A and B are
\* crawled, the second entry is dropped (three pages are navigated), at
\* completion visited = {A, B, C} and the graph is {A: {B, C}, B: {C}}, and
\* the flows returned include [A, B, C] and [A, C].
C9_ChainSiteRun ==
    C9_Scenario =>
        /\ (pc = "cs338" /\ visited = {NodeA, NodeB}) =>
               queue = <<<<NodeC, 1>>, <<NodeC, 2>>>>
        /\ pc \in AfterCrawl \cup {"idle"} =>
               /\ visited = {NodeA, NodeB, NodeC}
               /\ site_graph = (NodeA :> {NodeB, NodeC}) @@ (NodeB :> {NodeC})
               /\ hist.navs = <<NodeA, NodeB, NodeC>>
        /\ pc \in FlowsReturned =>
               {<<NodeA, NodeB, NodeC>>, <<NodeA, NodeC>>} \subseteq Range(flows)

\* the run on the three-page site is over
C9_Witness ==
    /\ C9_Scenario
    /\ pc = "rc30"
    /\ visited = {NodeA, NodeB, NodeC}
    /\ flows = <<<<NodeA, NodeC>>, <<NodeA, NodeB, NodeC>>>>

\* the five-link site crawled from page A with a budget of one page
C10_Scenario ==
    /\ site = StarSite
    /\ PagePath(args.start_url) = PA
    /\ args.max_pages = 1
    /\ faults = 0

\* C10: with no adapter failure, while the links of a page are processed
\* every link that was normalized and was not visited is still to be
\* processed or is an edge from the page, admitted to the frontier or not;
\* with budget 1 and a seed with five links no edge target is ever in the
\* frontier, and at completion one page is visited and it has five edges.
C10_EdgesRegardlessOfBudget ==
    /\ (pc = "cs397" /\ faults = 0) =>
           \A l \in Range(SurvivingLinks(cs.url, RawLinks(site, page), visited, DOMAIN_)) :
               l \in Range(cs.links) \/ l \in Neighbours(site_graph, cs.url)
    /\ C10_Scenario =>
           /\ \A i \in 1..Len(queue) : queue[i][1] \notin EdgeTargets(site_graph)
           /\ pc \in AfterCrawl =>
                  /\ Cardinality(visited) = 1
                  /\ \A v \in visited : Cardinality(Neighbours(site_graph, v)) = 5

\* the one-page crawl of the five-link site is over with five edges
C10_Witness ==
    /\ C10_Scenario
    /\ pc = "cs416"
    /\ visited = {NodeA}
    /\ Neighbours(site_graph, NodeA) =
           {NodeB, NodeC, Abs(StartHost, PD), Abs(StartHost, PE), Abs(StartHost, PF)}

\* the export targets main writes through a handler-or-not write
ExportTargets == {"cta_csv", "form_csv", "json", "sdr_xlsx", "flows_xlsx"}

\* C11: a write failure of one of the five export targets (CTA CSV, form
\* CSV, combined JSON, SDR spreadsheet, flows spreadsheet) is logged, every
\* other target is still attempted and main returns its result bundle: a
\* run in which only such a target failed never ends without all five
\* attempted and the bundle returned.
C11_ExportFailureIsolated ==
    (pc = "idle" /\ hist.failed # {} /\ hist.failed \subseteq ExportTargets) =>
        /\ hist.attempted \cap ExportTargets = ExportTargets
        /\ hist.returned

\* C12: canonicalization is idempotent: for the page URL as base and the
\* configured domain, every link normalize_url returned for a raw href of
\* the page (still to be processed, or filed as an edge target) is returned
\* unchanged when it is normalized again.
C12_NormalizeIdempotent ==
    /\ pc = "cs397" =>
           \A l \in Range(cs.links) : normalize_url(cs.url, l, DOMAIN_) = l
    /\ \A u \in DOMAIN site_graph : \A l \in site_graph[u] :
           normalize_url(u, l, DOMAIN_) = l

\* C13: for every page budget of at least 1, in every state of the crawl
\* loop |visited| + |queue| <= max_pages, duplicate queue entries counted;
\* and a link is pushed only when it is not visited and
\* |visited| + |queue| < max_pages held immediately before the push.
C13_FrontierAdmissionBound ==
    /\ [](args.max_pages >= 1 =>
            Cardinality(visited) + Len(queue) <= args.max_pages)
    /\ [][(pc = "cs397" /\ Len(queue') > Len(queue)) =>
            /\ Head(cs.links) \notin visited
            /\ Cardinality(visited) + Len(queue) < args.max_pages
            /\ queue' = Append(queue, <<Head(cs.links), cs.depth + 1>>)]_vars

\* the budget is used up by the visited pages and the frontier together,
\* and the next link of the page, not visited, is about to be refused
C13_Witness ==
    /\ pc = "cs397"
    /\ args.max_pages >= 1
    /\ queue # <<>>
    /\ Cardinality(visited) + Len(queue) = args.max_pages
    /\ cs.links # <<>>
    /\ Head(cs.links) \notin visited

\* control points of crawl_site from the first frontier entry to the end
\* of its loop
InCrawlLoop ==
    {"cs334", "cs338", "cs345", "cs346", "cs355", "cs374", "cs382", "cs388", "cs397"}

\* C14 (as the code has it): for every page budget of at least 1 the
\* frontier never holds more entries than the budget, duplicates counted,
\* and the visited set never exceeds the budget; the frontier exceeds the
\* budget only under budget 0, where it holds the one seed entry.
C14_FrontierWithinBudget ==
    /\ Cardinality(visited) <= args.max_pages
    /\ args.max_pages >= 1 => (Len(queue) <= args.max_pages /\ hist.peak <= args.max_pages)
    /\ (args.max_pages = 0 /\ pc \in InCrawlLoop) => Len(queue) = 1

\* one page is visited and the frontier holds every entry the budget
\* leaves, with a further unvisited link of the page waiting
C14_Witness ==
    /\ pc = "cs397"
    /\ args.max_pages >= 2
    /\ Cardinality(visited) = 1
    /\ Len(queue) = args.max_pages - 1
    /\ cs.links # <<>>
    /\ Head(cs.links) \notin visited \cup {queue[i][1] : i \in 1..Len(queue)}

\* a page with five in-scope links crawled under a budget of 1 to MaxBudget
\* pages, no adapter failure: more links compete than the budget admits
C14_Scenario ==
    /\ site = StarSite
    /\ args.start_url = SeedA
    /\ args.max_pages \in 1..MaxBudget
    /\ faults = 0

\* C14 (as stated): for some page budget of at least 1 and some link
\* structure a crawl state has more frontier entries than the budget; on
\* the five-link page the largest frontier of the finished crawl is such.
C14_FrontierExceedsBudget ==
    (C14_Scenario /\ pc = "cs416") => hist.peak > args.max_pages

\* C15: within one crawl run every URL is inserted into visited, published
\* as current_url by the crawl loop and navigated to at most once; a popped
\* entry whose URL is already visited is dropped with no navigation, no
\* change of the graph or the records and no status change; and visited
\* only grows from the reset of line 307 to the end of the run.
C15_EachUrlOnce ==
    /\ [](NoDuplicate(hist.order) /\ NoDuplicate(hist.published)
            /\ NoDuplicate(hist.navs))
    /\ [][(pc = "cs338" /\ queue' # queue /\ Head(queue)[1] \in visited) =>
            /\ pc' = "cs338"
            /\ queue' = Tail(queue)
            /\ UNCHANGED <<visited, site_graph, all_ctas, all_forms, crawl_status,
                           page, hist>>]_vars
    /\ [][pc = "cs300" \/ visited \subseteq visited']_vars

\* the second frontier entry of C has been dropped on the three-page site:
\* the frontier is empty and three pages were navigated
C15_Witness ==
    /\ C9_Scenario
    /\ pc = "cs338"
    /\ queue = <<>>
    /\ hist.peak = 2
    /\ hist.order = <<NodeA, NodeB, NodeC>>
    /\ hist.published = <<NodeA, NodeB, NodeC>>
    /\ hist.navs = <<NodeA, NodeB, NodeC>>

\* control points inside the try block of one page (lines 352-400)
InPageTry == {"cs355", "cs374", "cs382", "cs388", "cs397"}

\* C16: a failure while one page is processed (navigation, extraction, link
\* enumeration or any other error inside the page's try block) never ends
\* the run: the page stays in visited, the status error stays absent, the
\* frontier is untouched and control stays in the crawl loop, which goes on
\* to the loop test of line 338 under the same budget condition.
C16_PageFailureNotFatal ==
    /\ [](pc \in InPageTry => (cs.url \in visited /\ ~cs.fatal
                                /\ crawl_status.error = "None"))
    /\ [][(pc \in InPageTry /\ faults' > faults) =>
            /\ pc' \in InCrawlLoop
            /\ cs.url \in visited'
            /\ visited' = visited
            /\ queue' = queue
            /\ crawl_status' = crawl_status
            /\ ~cs'.fatal
            /\ args' = args]_vars
    /\ [][(pc = "cs338" /\ faults > 0 /\ ~cs.fatal
            /\ LoopCondition(queue, visited, args.max_pages)) =>
            (pc' \in {"cs338", "cs345"} /\ queue' = Tail(queue))]_vars

\* the extraction of the first page failed, and the loop has dequeued the
\* second page with no error published
C16_Witness ==
    /\ pc = "cs345"
    /\ faults = 1
    /\ Len(hist.order) = 2
    /\ hist.order[1] \in visited
    /\ all_ctas = <<>>
    /\ crawl_status.error = "None"
    /\ crawl_status.running

\* generate_flows called on the two-node cycle {A: {B}, B: {A}} with seed A,
\* max depth 3 and room for at least one flow
C17_Scenario ==
    /\ site_graph = (NodeA :> {NodeB}) @@ (NodeB :> {NodeA})
    /\ args.start_url = SeedA
    /\ args.max_flow_depth = 3
    /\ args.max_flows >= 1

\* C17: generate_flows run directly on the cyclic graph {A: {B}, B: {A}},
\* seed A, max depth 3, emits the path whose last node has all its
\* neighbours on the path: it returns exactly [[A, B]].
C17_CycleEndEmitsPath ==
    (C17_Scenario /\ pc = "x518") => flows = <<<<NodeA, NodeB>>>>

RECURSIVE Enumerate(_, _, _, _, _)
\* the while loop of lines 431-447 run to its end with no explosion guard
Enumerate(g, stack, all_flows, max_depth, max_flows) ==
    IF ~FlowLoopCondition(stack, all_flows, max_flows) THEN all_flows
    ELSE LET current == Last(stack)[1]
             path == Last(stack)[2]
             rest == Front(stack)
         IN IF EmitsPath(g, current, path, max_depth)
            THEN Enumerate(g, rest, Append(all_flows, path), max_depth, max_flows)
            ELSE Enumerate(g, PushNeighbours(rest, path, SortedUrls(Neighbours(g, current))),
                           all_flows, max_depth, max_flows)

\* what generate_flows(start_url) would return without the guard
UnguardedFlows ==
    LET start == normalize_url(args.start_url, args.start_url, DOMAIN_)
    IN IF ~Truthy(start) THEN <<>>
       ELSE Enumerate(site_graph, <<<<start, <<start>>>>>>, <<>>,
                      args.max_flow_depth, args.max_flows)

IsPrefix(s, t) == Len(s) <= Len(t) /\ SubSeq(t, 1, Len(s)) = s

\* C18: generate_flows counts the turns of its loop that expand neighbours
\* (not those that emit a flow) and leaves the loop as soon as the count
\* exceeds max_flows * 10, whatever is on the stack: the count never
\* exceeds max_flows * 10 + 1, and the flows emitted and returned are a
\* prefix of what the enumeration without the guard returns.
C18_ExplosionGuard ==
    /\ [](/\ gf.seen_count <= args.max_flows * 10 + 1
          /\ pc = "gf431" => gf.seen_count <= args.max_flows * 10
          /\ pc = "gf454" => gf.seen_count = args.max_flows * 10 + 1
          /\ pc \in {"gf431", "gf454"} => IsPrefix(gf.all_flows, UnguardedFlows)
          /\ pc = "x518" => IsPrefix(flows, UnguardedFlows))
    /\ [][pc = "gf431" /\ pc' \in {"gf431", "gf454"} =>
            \/ /\ gf'.seen_count = gf.seen_count + 1
               /\ gf'.all_flows = gf.all_flows
            \/ /\ gf'.seen_count = gf.seen_count
               /\ Len(gf'.all_flows) = Len(gf.all_flows) + 1
               /\ pc' = "gf431"]_vars

\* the guard has tripped with paths left on the stack, after a flow was
\* emitted and before one the unguarded enumeration goes on to emit
C18_Witness ==
    /\ pc = "gf454"
    /\ gf.stack # <<>>
    /\ gf.all_flows # <<>>
    /\ Len(UnguardedFlows) > Len(gf.all_flows)

\* the place of a visited URL in the order of visits
VisitIndex(u) == CHOOSE i \in 1..Len(hist.order) : hist.order[i] = u

RECURSIVE Peels(_, _)
\* the nodes S of graph g can be removed one by one, each with no edge
\* into what is left: g has no cycle among S
Peels(g, S) ==
    IF S = {} THEN TRUE
    ELSE LET free == {u \in S : Neighbours(g, u) \cap S = {}}
         IN free # {} /\ Peels(g, S \ free)

Acyclic(g) == Peels(g, DOMAIN g \cup EdgeTargets(g))

\* C19: the graph one crawl run builds is acyclic: every edge u -> v has
\* v # u and v visited strictly after u or never, so the order of visits is
\* a topological order of the graph.
C19_GraphAcyclic ==
    /\ Range(hist.order) = visited
    /\ \A u \in DOMAIN site_graph : \A v \in site_graph[u] :
           /\ v # u
           /\ v \in visited => VisitIndex(u) < VisitIndex(v)
    /\ Acyclic(site_graph)

\* the crawl of the site whose two pages link to each other is over: both
\* are visited and the graph has the one edge A -> B
C19_Witness ==
    /\ pc = "cs416"
    /\ site = CyclicSite
    /\ faults = 0
    /\ hist.order = <<NodeA, NodeB>>
    /\ site_graph = (NodeA :> {NodeB})

\* flow is a walk of graph g: each node is a neighbour of the one before
IsWalk(g, flow) ==
    \A i \in 1..(Len(flow) - 1) : flow[i + 1] \in Neighbours(g, flow[i])

\* C20: every flow generate_flows has emitted or returned is a walk in the
\* graph from the seed: its first node is the normalized seed, each
\* consecutive pair is an edge of the graph, and its last node has no
\* outgoing edge or is exactly max_depth edges from the seed.
C20_FlowsAreWalks ==
    \A flow \in Range(gf.all_flows) \cup Range(flows) :
        /\ flow # <<>>
        /\ flow[1] = normalize_url(args.start_url, args.start_url, DOMAIN_)
        /\ IsWalk(site_graph, flow)
        /\ \/ Neighbours(site_graph, Last(flow)) = {}
           \/ Len(flow) - 1 = args.max_flow_depth

\* two flows were returned for a seed written with a trailing slash: one
\* ends below the depth limit in a node without edges, one at the limit
C20_Witness ==
    /\ pc = "x518"
    /\ args.start_url # NodeA
    /\ Len(flows) = 2
    /\ Len(flows[1]) >= 2
    /\ Len(flows[1]) - 1 < args.max_flow_depth
    /\ Neighbours(site_graph, Last(flows[1])) = {}
    /\ Len(flows[2]) - 1 = args.max_flow_depth

\* C21: in a full run of main the node flows are enumerated from is the URL
\* key under which the crawl visited the seed: for every seed string, the
\* first URL inserted into visited equals the start node generate_flows
\* computes from the seed (line 424), at its call and in its loop.
C21_FlowsStartAtSeedKey ==
    /\ (pc = "gf424" /\ hist.order # <<>>) =>
           normalize_url(args.start_url, args.start_url, DOMAIN_) = hist.order[1]
    /\ (pc \in {"gf431", "gf454"} /\ hist.order # <<>>) => gf.start = hist.order[1]

\* C22: a crawl run without any failure that ends with fewer visited URLs
\* than the page budget has visited every page it discovered: every edge
\* target of the graph is in visited.
C22_BudgetLeftMeansAllVisited ==
    (pc = "cs416" /\ faults = 0 /\ Cardinality(visited) < args.max_pages) =>
        EdgeTargets(site_graph) \subseteq visited

\* C23: whenever a poller reads completed = true for a run started through
\* POST /start (once the run has reset the flag at line 24), the five
\* export targets of that run have been written and its flows generated:
\* completed = true is not published before the export and flow steps of
\* main are over.
C23_CompletedAfterExports ==
    (crawl_status.completed /\ pc \notin {"rc23", "rc24"}) =>
        /\ ExportTargets \subseteq hist.attempted
        /\ pc \in FlowsReturned

=============================================================================
